---- MODULE Spec2Model ----
(***************************************************************************)
(* PulsarTrack: the event stream client (frontend lib/websocket,           *)
(* class PulsarWebSocket) and the auction bid form (components/auction/    *)
(* BidForm, AuctionList, AuctionCard), modelled from the TypeScript        *)
(* sources.                                                                *)
(***************************************************************************)
EXTENDS Integers, Sequences, FiniteSets, TLC

(***************************************************************************)
(* Bounds of the model.                                                    *)
(***************************************************************************)
\* connect() invocations (manual and timer-driven) explored by SpecConn
MaxConnects == 8
\* connect() calls made by the caller, in both specifications
MaxManualConnects == 2
\* connect() invocations explored by SpecSub and SpecMsg
MaxSubConnects == 2
\* on() registrations explored by SpecSub and SpecMsg
MaxRegs == 2

(***************************************************************************)
(* Event stream client: types.                                             *)
(***************************************************************************)
\* type EventType, and the z.enum of PulsarEventSchema
EventType ==
  {"bid_placed", "auction_created", "auction_settled", "campaign_created",
   "view_recorded", "payment_processed", "consent_updated",
   "subscription_created", "reputation_updated", "connected", "error"}

\* keys of the handlers map: EventType | 'all'
HandlerKey == EventType \cup {"all"}

\* the callbacks that callers register; hThrow raises when it is invoked
Handlers == {"h1", "h2", "hThrow"}

HandlerThrows(h) == h = "hThrow"

\* keys that the callers of this model register under
RegKeys == {"connected", "bid_placed", "all"}

\* the callbacks and keys of the callers of SpecMsg
MsgHandlers == {"h1", "hThrow"}

MsgKeys == {"bid_placed", "all"}

NoEvent == "none"

(***************************************************************************)
(* Inbound text frames.  json: JSON.parse succeeds; top: the parsed value  *)
(* is an object; the other fields give the JSON kind of each property      *)
(* ("missing" when the property is absent) and, for type, its value.       *)
(***************************************************************************)
Frame(json, top, type, data, timestamp, txHash) ==
  [json |-> json, top |-> top, type |-> type, data |-> data,
   timestamp |-> timestamp, txHash |-> txHash]

GoodFrame(type) == Frame(TRUE, "object", type, "object", "number", "missing")

Frames ==
  { GoodFrame("bid_placed"), GoodFrame("auction_settled"),
    GoodFrame("connected"), GoodFrame("error"),
    Frame(TRUE, "object", "bid_placed", "object", "number", "string"),
    Frame(FALSE, "none", "missing", "missing", "missing", "missing"),
    Frame(TRUE, "array", "missing", "missing", "missing", "missing"),
    Frame(TRUE, "object", "bid_cancelled", "object", "number", "missing"),
    Frame(TRUE, "object", "missing", "object", "number", "missing"),
    Frame(TRUE, "object", "bid_placed", "array", "number", "missing"),
    Frame(TRUE, "object", "bid_placed", "null", "number", "missing"),
    Frame(TRUE, "object", "bid_placed", "missing", "number", "missing"),
    Frame(TRUE, "object", "bid_placed", "object", "string", "missing"),
    Frame(TRUE, "object", "connected", "object", "missing", "missing"),
    Frame(TRUE, "object", "bid_placed", "object", "number", "number"),
    Frame(TRUE, "object", "connected", "object", "number", "null") }

NoFrame == Frame(FALSE, "none", "none", "none", "none", "none")

\* the schema without its txHash rule: any txHash is let through
PulsarEventSchemaNoTxHash(frame) ==
  /\ frame.top = "object"
  /\ frame.type \in EventType
  /\ frame.data = "object"
  /\ frame.timestamp = "number"

\* PulsarEventSchema.safeParse(...).success: z.object of z.enum, z.record
\* (plain objects only), z.number and an optional z.string
PulsarEventSchema(frame) ==
  /\ frame.top = "object"
  /\ frame.type \in EventType
  /\ frame.data = "object"
  /\ frame.timestamp = "number"
  /\ frame.txHash \in {"missing", "string"}

(***************************************************************************)
(* Event stream client: state.                                             *)
(***************************************************************************)
VARIABLES
  ws,                 \* this.ws: index into sockets, 0 for null
  sockets,            \* every WebSocket constructed so far, by readyState
  handlers,           \* this.handlers: key -> list of callbacks
  reconnectTimer,     \* this.reconnectTimer: last timer id, 0 for null
  reconnectAttempts,  \* this.reconnectAttempts
  timers,             \* timer ids that setTimeout holds pending
  nextTimer,          \* the id the next setTimeout returns
  connects,           \* number of connect() invocations so far
  urlOk,              \* new WebSocket(this.url) does not throw for this url
  \* history of the run, written by no code
  regs,               \* the on() calls so far: key, callback, unsubscribed
  lastAct,            \* the operation that produced this state
  lastFrame,          \* the frame of the last onmessage
  emitted,            \* the type of the event emitted by the last step
  delivered,          \* the callbacks the last step invoked, in order
  manualConnects,     \* connect() calls made by the caller
  autoConnects,       \* connect() calls made by the retry timer
  everOpened,         \* some connection has opened
  shutdown            \* disconnect() returned and connect() was not called since

wsVars ==
  <<ws, sockets, handlers, reconnectTimer, reconnectAttempts, timers,
    nextTimer, connects, urlOk>>

wsHist ==
  <<regs, lastAct, lastFrame, emitted, delivered, manualConnects,
    autoConnects, everOpened, shutdown>>

\* private reconnectDelay = 3000 is the delay of every timer; the model
\* keeps no clock, a pending timer may fire at any later step
maxReconnectAttempts == 5

(***************************************************************************)
(* emit: the callbacks of the event's own key, then those of 'all', each   *)
(* list walked with forEach; an exception raised by a callback ends the    *)
(* walk and leaves emit.                                                   *)
(***************************************************************************)
RECURSIVE FirstThrow(_, _)
FirstThrow(list, i) ==
  IF i > Len(list) THEN 0
  ELSE IF HandlerThrows(list[i]) THEN i
  ELSE FirstThrow(list, i + 1)

\* the callbacks that list.forEach((h) => h(event)) invokes
forEach(list) ==
  LET k == FirstThrow(list, 1)
  IN  IF k = 0 THEN list ELSE SubSeq(list, 1, k)

Tag(key, list) == [i \in 1..Len(list) |-> [key |-> key, h |-> list[i]]]

\* emit that walks the event's own callbacks a second time
emitDuplicating(type) ==
  Tag(type, handlers[type]) \o Tag(type, handlers[type]) \o
  Tag("all", handlers["all"])

emit(type) ==
  LET specific == handlers[type]
      all == handlers["all"]
  IN  IF FirstThrow(specific, 1) # 0
      THEN Tag(type, forEach(specific))
      ELSE Tag(type, specific) \o Tag("all", forEach(all))

\* what a step records about itself
Hist(act, frame, ev, calls) ==
  /\ lastAct' = act
  /\ lastFrame' = frame
  /\ emitted' = ev
  /\ delivered' = calls

(***************************************************************************)
(* scheduleReconnect, run with this.reconnectAttempts = attempts while the *)
(* timers in pending are outstanding.  The previous timer is not cleared.  *)
(***************************************************************************)
\* the cap compared with > instead of >=: one retry more
scheduleReconnectOffByOne(attempts, pending) ==
  IF attempts > maxReconnectAttempts
  THEN /\ timers' = pending
       /\ UNCHANGED <<reconnectTimer, nextTimer>>
  ELSE /\ reconnectTimer' = nextTimer
       /\ timers' = pending \cup {nextTimer}
       /\ nextTimer' = nextTimer + 1

scheduleReconnect(attempts, pending) ==
  IF attempts >= maxReconnectAttempts
  THEN /\ timers' = pending
       /\ UNCHANGED <<reconnectTimer, nextTimer>>
  ELSE /\ reconnectTimer' = nextTimer
       /\ timers' = pending \cup {nextTimer}
       /\ nextTimer' = nextTimer + 1

\* connect(): a new socket becomes this.ws (the previous one is neither
\* closed nor detached); a throwing constructor goes to scheduleReconnect
connect(attempts, pending) ==
  /\ connects' = connects + 1
  /\ IF urlOk
     THEN /\ sockets' = Append(sockets, "connecting")
          /\ ws' = Len(sockets) + 1
          /\ timers' = pending
          /\ UNCHANGED <<reconnectTimer, nextTimer>>
     ELSE /\ UNCHANGED <<ws, sockets>>
          /\ scheduleReconnect(attempts, pending)

(***************************************************************************)
(* Event stream client: operations.                                        *)
(***************************************************************************)
InitWs ==
  /\ ws = 0
  /\ sockets = <<>>
  /\ handlers = [k \in HandlerKey |-> <<>>]
  /\ reconnectTimer = 0
  /\ reconnectAttempts = 0
  /\ timers = {}
  /\ nextTimer = 1
  /\ connects = 0
  /\ urlOk \in BOOLEAN
  /\ regs = <<>>
  /\ lastAct = "new"
  /\ lastFrame = NoFrame
  /\ emitted = NoEvent
  /\ delivered = <<>>
  /\ manualConnects = 0
  /\ autoConnects = 0
  /\ everOpened = FALSE
  /\ shutdown = FALSE

\* the caller calls connect() (connectWebSocket)
Connect(limit) ==
  /\ connects < limit
  /\ manualConnects < MaxManualConnects
  /\ connect(reconnectAttempts, timers)
  /\ manualConnects' = manualConnects + 1
  /\ shutdown' = FALSE
  /\ Hist("connect", NoFrame, NoEvent, <<>>)
  /\ UNCHANGED <<handlers, reconnectAttempts, urlOk, regs, autoConnects,
                 everOpened>>

\* the callback of setTimeout in scheduleReconnect
TimerFire(limit) ==
  \E t \in timers :
    /\ connects < limit
    /\ reconnectAttempts' = reconnectAttempts + 1
    /\ connect(reconnectAttempts + 1, timers \ {t})
    /\ autoConnects' = autoConnects + 1
    /\ Hist("reconnect", NoFrame, NoEvent, <<>>)
    /\ UNCHANGED <<handlers, urlOk, regs, manualConnects, everOpened,
                   shutdown>>

\* onopen that leaves the retry counter as it is
OnOpenKeepsAttempts ==
  \E s \in 1..Len(sockets) :
    /\ sockets[s] = "connecting"
    /\ sockets' = [sockets EXCEPT ![s] = "open"]
    /\ everOpened' = TRUE
    /\ Hist("onopen", NoFrame, "connected", emit("connected"))
    /\ UNCHANGED <<ws, handlers, reconnectTimer, reconnectAttempts, timers,
                   nextTimer, connects, urlOk, regs, manualConnects,
                   autoConnects, shutdown>>

\* ws.onopen
OnOpen ==
  \E s \in 1..Len(sockets) :
    /\ sockets[s] = "connecting"
    /\ sockets' = [sockets EXCEPT ![s] = "open"]
    /\ reconnectAttempts' = 0
    /\ everOpened' = TRUE
    /\ Hist("onopen", NoFrame, "connected", emit("connected"))
    /\ UNCHANGED <<ws, handlers, reconnectTimer, timers, nextTimer, connects,
                   urlOk, regs, manualConnects, autoConnects, shutdown>>

\* ws.onmessage
OnMessage ==
  \E s \in 1..Len(sockets), frame \in Frames :
    /\ sockets[s] = "open"
    /\ IF frame.json /\ PulsarEventSchema(frame)
       THEN Hist("onmessage", frame, frame.type, emit(frame.type))
       ELSE Hist("onmessage", frame, NoEvent, <<>>)
    /\ UNCHANGED <<wsVars, regs, manualConnects, autoConnects, everOpened,
                   shutdown>>

\* ws.onerror; the transport then closes the connection
OnError ==
  \E s \in 1..Len(sockets) :
    /\ sockets[s] \in {"connecting", "open"}
    /\ sockets' = [sockets EXCEPT ![s] = "closing"]
    /\ Hist("onerror", NoFrame, "error", emit("error"))
    /\ UNCHANGED <<ws, handlers, reconnectTimer, reconnectAttempts, timers,
                   nextTimer, connects, urlOk, regs, manualConnects,
                   autoConnects, everOpened, shutdown>>

\* ws.onclose: the close event of a socket that the peer, an error or
\* close() has closed
OnClose ==
  \E s \in 1..Len(sockets) :
    /\ sockets[s] \in {"open", "closing"}
    /\ sockets' = [sockets EXCEPT ![s] = "closed"]
    /\ scheduleReconnect(reconnectAttempts, timers)
    /\ Hist("onclose", NoFrame, NoEvent, <<>>)
    /\ UNCHANGED <<ws, handlers, reconnectAttempts, connects, urlOk, regs,
                   manualConnects, autoConnects, everOpened, shutdown>>

\* disconnect(): clearTimeout of the last timer, close() of this.ws (its
\* close event is delivered later, by OnClose), this.ws = null
Disconnect ==
  /\ timers' = timers \ {reconnectTimer}
  /\ sockets' = IF ws # 0 /\ sockets[ws] \in {"connecting", "open"}
                THEN [sockets EXCEPT ![ws] = "closing"]
                ELSE sockets
  /\ ws' = 0
  /\ shutdown' = TRUE
  /\ Hist("disconnect", NoFrame, NoEvent, <<>>)
  /\ UNCHANGED <<handlers, reconnectTimer, reconnectAttempts, nextTimer,
                 connects, urlOk, regs, manualConnects, autoConnects,
                 everOpened>>

\* handlers.filter((h) => h !== handler)
RECURSIVE filterNot(_, _)
filterNot(list, handler) ==
  IF list = <<>> THEN <<>>
  ELSE IF Head(list) # handler
       THEN <<Head(list)>> \o filterNot(Tail(list), handler)
       ELSE filterNot(Tail(list), handler)

\* on(eventType, handler), for an eventType of keys and a handler of hs
On(keys, hs) ==
  \E key \in keys, h \in hs :
    /\ Len(regs) < MaxRegs
    /\ handlers' = [handlers EXCEPT ![key] = Append(@, h)]
    /\ regs' = Append(regs, [key |-> key, h |-> h, active |-> TRUE])
    /\ Hist("on", NoFrame, NoEvent, <<>>)
    /\ UNCHANGED <<ws, sockets, reconnectTimer, reconnectAttempts, timers,
                   nextTimer, connects, urlOk, manualConnects, autoConnects,
                   everOpened, shutdown>>

\* the function returned by the i-th on() call
Unsubscribe ==
  \E i \in 1..Len(regs) :
    /\ handlers' = [handlers EXCEPT
                      ![regs[i].key] = filterNot(@, regs[i].h)]
    /\ regs' = [regs EXCEPT ![i].active = FALSE]
    /\ Hist("unsubscribe", NoFrame, NoEvent, <<>>)
    /\ UNCHANGED <<ws, sockets, reconnectTimer, reconnectAttempts, timers,
                   nextTimer, connects, urlOk, manualConnects, autoConnects,
                   everOpened, shutdown>>

(***************************************************************************)
(* Numbers of the bid form.  A JavaScript number is an IEEE-754 double:    *)
(* NaN, or (-1)^neg * m * 2^e with m = 0, or 2^52 <= m < 2^53.  m is kept  *)
(* as a list of 15-bit limbs, least significant first, since it exceeds    *)
(* the 32-bit integers of TLC.  Subnormals and infinities are out of the   *)
(* range of amounts.                                                       *)
(***************************************************************************)
LimbBits == 15

Limb == 32768

MantissaBits == 53

RECURSIVE BigTrim(_)
BigTrim(a) ==
  IF a = <<>> THEN <<>>
  ELSE IF a[Len(a)] = 0 THEN BigTrim(SubSeq(a, 1, Len(a) - 1))
  ELSE a

RECURSIVE BigFromInt(_)
BigFromInt(n) ==
  IF n = 0 THEN <<>> ELSE <<n % Limb>> \o BigFromInt(n \div Limb)

RECURSIVE BigToInt(_)
BigToInt(a) ==
  IF a = <<>> THEN 0 ELSE Head(a) + Limb * BigToInt(Tail(a))

\* a * s + c, for 0 <= s, c < Limb
RECURSIVE BigMulSmall(_, _, _)
BigMulSmall(a, s, c) ==
  IF a = <<>> THEN BigFromInt(c)
  ELSE LET v == Head(a) * s + c
       IN  <<v % Limb>> \o BigMulSmall(Tail(a), s, v \div Limb)

\* a + b + c, for c in 0..1
RECURSIVE BigAdd(_, _, _)
BigAdd(a, b, c) ==
  IF a = <<>> /\ b = <<>> THEN BigFromInt(c)
  ELSE LET x == IF a = <<>> THEN 0 ELSE Head(a)
           y == IF b = <<>> THEN 0 ELSE Head(b)
           v == x + y + c
       IN  <<v % Limb>> \o
           BigAdd(IF a = <<>> THEN <<>> ELSE Tail(a),
                  IF b = <<>> THEN <<>> ELSE Tail(b), v \div Limb)

RECURSIVE BigMul(_, _)
BigMul(a, b) ==
  IF a = <<>> \/ b = <<>> THEN <<>>
  ELSE BigTrim(BigAdd(BigMulSmall(a, Head(b), 0),
                      <<0>> \o BigMul(a, Tail(b)), 0))

\* quotient and remainder of a by s, for 0 < s < Limb
RECURSIVE BigDivSmall(_, _)
BigDivSmall(a, s) ==
  IF a = <<>> THEN [q |-> <<>>, r |-> 0]
  ELSE LET rest == BigDivSmall(Tail(a), s)
           cur == rest.r * Limb + Head(a)
       IN  [q |-> BigTrim(<<cur \div s>> \o rest.q), r |-> cur % s]

\* a < b, for trimmed a and b
RECURSIVE BigLess(_, _)
BigLess(a, b) ==
  IF Len(a) # Len(b) THEN Len(a) < Len(b)
  ELSE IF a = <<>> THEN FALSE
  ELSE IF a[Len(a)] # b[Len(b)] THEN a[Len(a)] < b[Len(b)]
  ELSE BigLess(BigTrim(SubSeq(a, 1, Len(a) - 1)),
               BigTrim(SubSeq(b, 1, Len(b) - 1)))

RECURSIVE IntBitLen(_)
IntBitLen(n) == IF n = 0 THEN 0 ELSE 1 + IntBitLen(n \div 2)

BigBitLen(a) ==
  IF a = <<>> THEN 0 ELSE LimbBits * (Len(a) - 1) + IntBitLen(a[Len(a)])

BigOdd(a) == a # <<>> /\ Head(a) % 2 = 1

\* a * 2^k
BigShiftLeft(a, k) ==
  IF a = <<>> THEN <<>>
  ELSE [i \in 1..(k \div LimbBits) |-> 0] \o
       BigMulSmall(a, 2 ^ (k % LimbBits), 0)

\* floor(a / 2^k), and whether a bit was shifted out
BigShiftRight(a, k) ==
  LET drop == k \div LimbBits
      low == SubSeq(a, 1, IF drop < Len(a) THEN drop ELSE Len(a))
      high == SubSeq(a, drop + 1, Len(a))
      d == BigDivSmall(high, 2 ^ (k % LimbBits))
  IN  [q |-> d.q,
       sticky |-> d.r # 0 \/ \E i \in 1..Len(low) : low[i] # 0]

NaN == [nan |-> TRUE, neg |-> FALSE, m |-> <<>>, e |-> 0]

Zero == [nan |-> FALSE, neg |-> FALSE, m |-> <<>>, e |-> 0]

\* the double nearest to (n + f) * 2^e, ties to even, for a bignum n > 0
\* and a fraction 0 <= f < 1 that is known only as zero (sticky false) or
\* nonzero (sticky true); n has at least 55 bits when sticky is true
RoundToDouble(n, e, sticky) ==
  LET len == BigBitLen(n)
  IN  IF len <= MantissaBits
      THEN [nan |-> FALSE, neg |-> FALSE,
            m |-> BigShiftLeft(n, MantissaBits - len),
            e |-> e - (MantissaBits - len)]
      ELSE LET k == len - MantissaBits
               s1 == BigShiftRight(n, k - 1)
               guard == BigOdd(s1.q)
               q == BigShiftRight(s1.q, 1).q
               up == guard /\ (sticky \/ s1.sticky \/ BigOdd(q))
               r == IF up THEN BigAdd(q, <<>>, 1) ELSE q
           IN  IF BigBitLen(r) > MantissaBits
               THEN [nan |-> FALSE, neg |-> FALSE,
                     m |-> BigShiftRight(r, 1).q, e |-> e + k + 1]
               ELSE [nan |-> FALSE, neg |-> FALSE, m |-> r, e |-> e + k]

\* n * 2^80 divided k times by ten: the quotient and whether a remainder
\* was dropped
RECURSIVE ScaledDecimal(_, _)
ScaledDecimal(n, k) ==
  IF k = 0 THEN [q |-> BigShiftLeft(BigFromInt(n), 80), sticky |-> FALSE]
  ELSE LET prev == ScaledDecimal(n, k - 1)
           d == BigDivSmall(prev.q, 10)
       IN  [q |-> d.q, sticky |-> prev.sticky \/ d.r # 0]

(***************************************************************************)
(* A decimal text is empty (or not a number), or the digits n with k of    *)
(* them after the point and an optional minus sign: n / 10^k.              *)
(***************************************************************************)
Dec(n, k) == [empty |-> FALSE, neg |-> FALSE, n |-> n, k |-> k]

NegDec(n, k) == [empty |-> FALSE, neg |-> TRUE, n |-> n, k |-> k]

EmptyText == [empty |-> TRUE, neg |-> FALSE, n |-> 0, k |-> 0]

\* Number(text) and parseFloat(text) of a decimal text: the double nearest
\* to its value, NaN for the empty text
parseFloat(text) ==
  IF text.empty THEN NaN
  ELSE IF text.n = 0 THEN Zero
  ELSE LET s == ScaledDecimal(text.n, text.k)
       IN  [RoundToDouble(s.q, 0 - 80, s.sticky) EXCEPT !.neg = text.neg]

\* x * y of two doubles
DoubleMul(x, y) ==
  IF x.nan \/ y.nan THEN NaN
  ELSE IF x.m = <<>> \/ y.m = <<>> THEN Zero
  ELSE [RoundToDouble(BigMul(x.m, y.m), x.e + y.e, FALSE)
          EXCEPT !.neg = (x.neg # y.neg)]

\* x < y of two doubles (false when either is NaN)
DoubleLess(x, y) ==
  IF x.nan \/ y.nan THEN FALSE
  ELSE IF x.m = <<>> THEN y.m # <<>> /\ ~y.neg
  ELSE IF y.m = <<>> THEN x.neg
  ELSE IF x.neg # y.neg THEN x.neg
  ELSE LET below == \/ x.e < y.e
                    \/ x.e = y.e /\ BigLess(x.m, y.m)
           above == \/ y.e < x.e
                    \/ x.e = y.e /\ BigLess(y.m, x.m)
       IN  IF x.neg THEN above ELSE below

\* x <= 0
DoubleNonPositive(x) == ~x.nan /\ (x.m = <<>> \/ x.neg)

\* a JavaScript value is truthy: a number is, unless it is 0 or NaN
Truthy(x) == ~x.nan /\ x.m # <<>>

\* Math.floor(x) of a double x >= 0, as an integer
MathFloor(x) ==
  IF x.m = <<>> THEN 0
  ELSE IF x.e >= 0 THEN BigToInt(BigShiftLeft(x.m, x.e))
  ELSE BigToInt(BigShiftRight(x.m, 0 - x.e).q)

(***************************************************************************)
(* Auctions and the bid form.  Amounts of an Auction are stroops; the form *)
(* takes XLM as a decimal text.                                            *)
(***************************************************************************)
\* export const STROOPS_PER_XLM = 10_000_000
STROOPS_PER_XLM == 10000000

\* winning_bid: null
Null == 0 - 1

NoWinner == "null"

\* the JavaScript value null where a number is expected
NullNumber == [null |-> TRUE]

Auction(floor, reserve, status, bid, winner, count) ==
  [floor_price |-> floor, reserve_price |-> reserve, status |-> status,
   winning_bid |-> bid, winner |-> winner, bid_count |-> count]

\* biddingOn: null
NoForm == [status |-> "null"]

\* formatXlm of display-utils: the stroops as XLM, 10^7 stroops printing
\* as "1" (BidForm.test: floor_price 10000000n renders as 1 XLM)
formatXlm(stroops) == Dec(stroops, 7)

\* const floorXlm = Number(formatXlm(BigInt(auction.floor_price)))
floorXlm(auction) == parseFloat(formatXlm(auction.floor_price))

\* const currentBidXlm = auction.winning_bid ? Number(formatXlm(...)) : null
\* (null and 0n are falsy)
currentBidXlm(auction) ==
  IF auction.winning_bid # Null /\ auction.winning_bid # 0
  THEN parseFloat(formatXlm(auction.winning_bid))
  ELSE NullNumber

\* the literal 1.05
MinIncrementFactor == parseFloat(Dec(105, 2))

\* const minBid = currentBidXlm ? currentBidXlm * 1.05 : floorXlm
minBid(auction) ==
  LET cur == currentBidXlm(auction)
  IN  IF cur # NullNumber /\ Truthy(cur)
      THEN DoubleMul(cur, MinIncrementFactor)
      ELSE floorXlm(auction)

\* STROOPS_PER_XLM as a number
StroopsPerXlmNumber == parseFloat(Dec(STROOPS_PER_XLM, 0))

\* xlmToStroops: BigInt(Math.floor(xlm * STROOPS_PER_XLM))
xlmToStroops(xlm) == MathFloor(DoubleMul(xlm, StroopsPerXlmNumber))

ErrInvalid == "Enter a valid bid amount"

ErrMinimum == "Minimum bid is"

ErrCampaign == "Select a campaign"

ErrWallet == "Wallet not connected"

ErrContract == "Failed to place bid"

NoError == "null"

\* the checks of handleSubmit before placeBid: the error it sets (with the
\* minimum that the message shows), or the amount it passes to placeBid
Checked(error, min, amount) ==
  [error |-> error, min |-> min, amount |-> amount]

validateSubmit(auction, text, campaign) ==
  LET amount == parseFloat(text)
      min == minBid(auction)
  IN  IF amount.nan \/ DoubleNonPositive(amount)
      THEN Checked(ErrInvalid, Zero, 0)
      ELSE IF DoubleLess(amount, min)
      THEN Checked(ErrMinimum, min, 0)
      ELSE IF campaign = ""
      THEN Checked(ErrCampaign, Zero, 0)
      ELSE Checked(NoError, Zero, xlmToStroops(amount))

\* 100 * amount >= 105 * bid, in exact arithmetic
MeetsIncrement(amount, bid) ==
  ~BigLess(BigMulSmall(BigFromInt(amount), 100, 0),
           BigMulSmall(BigFromInt(bid), 105, 0))

\* place_bid of the auction-engine contract, which raises unless the
\* auction is open and the amount satisfies the invariant of a Bid
placeBidAccepted(auction, amount) ==
  /\ auction.status = "Open"
  /\ amount >= auction.floor_price
  /\ auction.winning_bid # Null => MeetsIncrement(amount, auction.winning_bid)

\* place_bid that records the new winner without counting the bid
placeBidUncounted(auction, address, amount) ==
  [auction EXCEPT !.winning_bid = amount, !.winner = address]

\* the auction after place_bid accepted the bid: the bid is the winning
\* bid, its bidder the winner, and the bid is counted
placeBid(auction, address, amount) ==
  [auction EXCEPT !.winning_bid = amount, !.winner = address,
                  !.bid_count = @ + 1]

VARIABLES
  ledger,            \* the auction as the auction-engine contract holds it
  auctions,          \* AuctionList: the auction as last fetched (props)
  biddingOn,         \* AuctionList: the auction of the open BidForm, or null
  bidXlm,            \* BidForm: the text of the amount field
  selectedCampaign,  \* BidForm: the text of the campaign field
  error,             \* BidForm: the error shown
  \* history of the run, written by no code
  lastSubmit         \* what handleSubmit saw and did, when it was the last step

bidVars ==
  <<ledger, auctions, biddingOn, bidXlm, selectedCampaign, error, lastSubmit>>

NoSubmit == [done |-> FALSE]

\* the texts typed into the amount field
FormTexts ==
  { EmptyText, Dec(0, 0), NegDec(1, 0), Dec(1049, 7), Dec(105, 6),
    Dec(5, 1), Dec(314, 2), Dec(315, 2), Dec(60, 0), Dec(99, 0),
    Dec(150, 0), Dec(155, 0), Dec(1575, 1), Dec(200, 0) }

ScenarioTexts == {EmptyText, Dec(99, 0), Dec(150, 0), Dec(155, 0), Dec(200, 0)}

CampaignTexts == {"", "7"}

\* wallet-store address: null, or the account of the connected wallet
Addresses == {"null", "A", "B"}

Xlm(n) == n * STROOPS_PER_XLM

FloorPrices == {Xlm(1), Xlm(100)}

WinningBids == {Null, 1000, Xlm(3), Xlm(50), Xlm(150)}

\* any auction shown in an open bid form, whatever its history
InitBidForm ==
  /\ ledger \in { Auction(f, Xlm(200), st, w, IF w = Null THEN NoWinner ELSE "B",
                          IF w = Null THEN 0 ELSE 1) :
                    f \in FloorPrices, st \in {"Open", "Settled", "Cancelled"},
                    w \in WinningBids }
  /\ auctions = ledger
  /\ biddingOn = ledger
  /\ bidXlm = EmptyText
  /\ selectedCampaign = ""
  /\ error = NoError
  /\ lastSubmit = NoSubmit

\* the auction of the scenario: floor 100 XLM, reserve 200 XLM, no bid yet
InitAuction ==
  /\ ledger = Auction(Xlm(100), Xlm(200), "Open", Null, NoWinner, 0)
  /\ auctions = ledger
  /\ biddingOn = NoForm
  /\ bidXlm = EmptyText
  /\ selectedCampaign = ""
  /\ error = NoError
  /\ lastSubmit = NoSubmit

\* the clock of the browser may run ahead of the ledger's: MaxNow seconds
\* of it are followed
MaxNow == 3

\* end_time values of the auction, in seconds of that clock
EndTimes == {1, 2}

VARIABLES
  now,       \* Math.floor(Date.now() / 1000)
  end_time   \* auction.end_time, fixed when the auction is created

clockVars == <<now, end_time>>

\* Countdown: "Ended" once diff <= 0, and before that the hours, minutes
\* and seconds left
Countdown(endTime, t) ==
  LET diff == endTime - t
  IN  IF diff <= 0 THEN [ended |-> TRUE, h |-> 0, m |-> 0, s |-> 0]
      ELSE [ended |-> FALSE, h |-> diff \div 3600,
            m |-> (diff % 3600) \div 60, s |-> diff % 60]

\* AuctionCard that offers the bid only until end_time
AuctionCardUntilEnd(auction, endTime, onBid, t) ==
  LET isOpen == auction.status = "Open"
  IN  [timeLeft |-> IF isOpen THEN {Countdown(endTime, t)} ELSE {},
       placeBid |-> isOpen /\ onBid /\ ~Countdown(endTime, t).ended]

\* AuctionCard rendered at time t: the "Time left" row when isOpen, and the
\* "Place Bid" button when isOpen && onBid
AuctionCard(auction, endTime, onBid, t) ==
  LET isOpen == auction.status = "Open"
  IN  [timeLeft |-> IF isOpen THEN {Countdown(endTime, t)} ELSE {},
       placeBid |-> isOpen /\ onBid]

\* AuctionList: onBid={auction.status === 'Open' ? setBiddingOn : undefined}
onBid(auction) == auction.status = "Open"

\* the card of the auction as the list renders it now
RenderedCard == AuctionCard(auctions, end_time, onBid(auctions), now)

\* an auction whose end_time is yet to come
InitClock ==
  /\ now = 0
  /\ end_time \in EndTimes

\* the clock, unused
IdleClock ==
  /\ now = 0
  /\ end_time = 0

\* a second passes
Tick ==
  /\ now < MaxNow
  /\ now' = now + 1
  /\ lastSubmit' = NoSubmit
  /\ UNCHANGED <<end_time, ledger, auctions, biddingOn, bidXlm,
                 selectedCampaign, error>>

\* the auctions query refetches (onRefresh, or its refetch interval)
Refresh ==
  /\ auctions' = ledger
  /\ lastSubmit' = NoSubmit
  /\ UNCHANGED <<ledger, biddingOn, bidXlm, selectedCampaign, error>>

\* AuctionCard "Place Bid": rendered when isOpen && onBid, and AuctionList
\* passes onBid only for an auction whose status is Open; the form mounts
\* with empty fields
OpenBidForm ==
  /\ biddingOn = NoForm
  /\ RenderedCard.placeBid
  /\ biddingOn' = auctions
  /\ bidXlm' = EmptyText
  /\ selectedCampaign' = ""
  /\ error' = NoError
  /\ lastSubmit' = NoSubmit
  /\ UNCHANGED <<ledger, auctions>>

\* BidForm onCancel: setBiddingOn(null)
CancelBidForm ==
  /\ biddingOn # NoForm
  /\ biddingOn' = NoForm
  /\ lastSubmit' = NoSubmit
  /\ UNCHANGED <<ledger, auctions, bidXlm, selectedCampaign, error>>

\* onChange of the amount field
TypeBid(texts) ==
  \E text \in texts :
    /\ biddingOn # NoForm
    /\ bidXlm' = text
    /\ lastSubmit' = NoSubmit
    /\ UNCHANGED <<ledger, auctions, biddingOn, selectedCampaign, error>>

\* onChange of the campaign field
TypeCampaign ==
  \E text \in CampaignTexts :
    /\ biddingOn # NoForm
    /\ selectedCampaign' = text
    /\ lastSubmit' = NoSubmit
    /\ UNCHANGED <<ledger, auctions, biddingOn, bidXlm, error>>

\* handleSubmit that shows the error of a failed check and calls placeBid
\* all the same
HandleSubmitUnchecked ==
  /\ biddingOn # NoForm
  /\ \E address \in Addresses,
        v \in {validateSubmit(biddingOn, bidXlm, selectedCampaign)} :
       \E called \in {address # "null"} :
       \E accepted \in {called /\ ledger.status = "Open"} :
         /\ error' = IF v.error # NoError THEN v.error
                     ELSE IF address = "null" THEN ErrWallet
                     ELSE IF ~accepted THEN ErrContract
                     ELSE NoError
         /\ ledger' = IF accepted
                      THEN placeBid(ledger, address, ledger.floor_price)
                      ELSE ledger
         /\ biddingOn' = IF accepted THEN NoForm ELSE biddingOn
         /\ lastSubmit' = [done |-> TRUE, auction |-> biddingOn,
                           known |-> auctions, text |-> bidXlm,
                           campaign |-> selectedCampaign, address |-> address,
                           error |-> v.error, min |-> v.min,
                           passed |-> v.error = NoError,
                           called |-> called, amount |-> v.amount,
                           accepted |-> accepted, before |-> ledger]
         /\ UNCHANGED <<auctions, bidXlm, selectedCampaign>>

\* BidForm.handleSubmit with the wallet at address: the checks, then
\* placeBid (which throws without a wallet, or when the contract raises),
\* then onSuccess of AuctionList: setBiddingOn(null)
HandleSubmit ==
  /\ biddingOn # NoForm
  /\ \E address \in Addresses,
        v \in {validateSubmit(biddingOn, bidXlm, selectedCampaign)} :
       \E called \in {v.error = NoError /\ address # "null"} :
       \E accepted \in {called /\ placeBidAccepted(ledger, v.amount)} :
         /\ error' = IF v.error # NoError THEN v.error
                     ELSE IF address = "null" THEN ErrWallet
                     ELSE IF ~accepted THEN ErrContract
                     ELSE NoError
         /\ ledger' = IF accepted THEN placeBid(ledger, address, v.amount)
                      ELSE ledger
         /\ biddingOn' = IF accepted THEN NoForm ELSE biddingOn
         /\ lastSubmit' = [done |-> TRUE, auction |-> biddingOn,
                           known |-> auctions, text |-> bidXlm,
                           campaign |-> selectedCampaign, address |-> address,
                           error |-> v.error, min |-> v.min,
                           passed |-> v.error = NoError,
                           called |-> called, amount |-> v.amount,
                           accepted |-> accepted, before |-> ledger]
         /\ UNCHANGED <<auctions, bidXlm, selectedCampaign>>

\* the contract settles the auction
Settle ==
  /\ ledger.status = "Open"
  /\ ledger' = [ledger EXCEPT !.status = "Settled"]
  /\ lastSubmit' = NoSubmit
  /\ UNCHANGED <<auctions, biddingOn, bidXlm, selectedCampaign, error>>

\* the contract cancels the auction
CancelAuction ==
  /\ ledger.status = "Open"
  /\ ledger' = [ledger EXCEPT !.status = "Cancelled"]
  /\ lastSubmit' = NoSubmit
  /\ UNCHANGED <<auctions, biddingOn, bidXlm, selectedCampaign, error>>

(***************************************************************************)
(* The locally known auction, merged with the confirmed events that the    *)
(* event stream client delivers.                                           *)
(***************************************************************************)
MaxBidCount == 3

AuctionIds == {"auction-1", "auction-2"}

\* the key of the auction record that the events are merged into
ThisAuction == "auction-1"

\* a delivered event: its type, and what its data says (data is an open
\* record, so the auction id, the amount and the address may each be absent)
AuctionEvent(type, auctionId, amount, bidder) ==
  [type |-> type, auctionId |-> auctionId, amount |-> amount,
   bidder |-> bidder]

NoAuctionEvent == AuctionEvent(NoEvent, "none", Null, NoWinner)

EventAmounts == {Null, Xlm(100), Xlm(150), Xlm(200)}

\* what the server may send; bid_cancelled is no member of EventType
AuctionEvents ==
  { AuctionEvent(t, a, n, w) :
      t \in {"bid_placed", "auction_settled", "view_recorded", "bid_cancelled"},
      a \in AuctionIds, n \in EventAmounts, w \in Addresses }

\* the event's reported amount exceeds the locally known winning bid
Exceeds(amount, known) == amount # Null /\ (known = Null \/ amount > known)

\* the merge that trusts the latest bid_placed, whatever its amount
applyConfirmedEventLastWins(auction, event) ==
  IF event.auctionId # ThisAuction \/ auction.status # "Open" THEN auction
  ELSE IF event.type = "bid_placed"
  THEN [auction EXCEPT !.bid_count = @ + 1, !.winning_bid = event.amount,
                       !.winner = event.bidder]
  ELSE IF event.type = "auction_settled"
  THEN [auction EXCEPT !.status = "Settled", !.winning_bid = event.amount,
                       !.winner = event.bidder]
  ELSE auction

\* the merge that keeps merging bid_placed and auction_settled into an
\* auction that has left Open
applyConfirmedEventUnlocked(auction, event) ==
  IF event.auctionId # ThisAuction THEN auction
  ELSE IF event.type = "bid_placed"
  THEN IF Exceeds(event.amount, auction.winning_bid)
       THEN [auction EXCEPT !.bid_count = @ + 1,
                            !.winning_bid = event.amount,
                            !.winner = event.bidder]
       ELSE [auction EXCEPT !.bid_count = @ + 1]
  ELSE IF event.type = "auction_settled"
  THEN [auction EXCEPT !.status = "Settled", !.winning_bid = event.amount,
                       !.winner = event.bidder]
  ELSE auction

\* the merge that counts a bid_placed only when it becomes the winning bid
applyConfirmedEventCountsWinners(auction, event) ==
  IF event.auctionId # ThisAuction \/ auction.status # "Open" THEN auction
  ELSE IF event.type = "bid_placed"
  THEN IF Exceeds(event.amount, auction.winning_bid)
       THEN [auction EXCEPT !.bid_count = @ + 1,
                            !.winning_bid = event.amount,
                            !.winner = event.bidder]
       ELSE auction
  ELSE IF event.type = "auction_settled"
  THEN [auction EXCEPT !.status = "Settled", !.winning_bid = event.amount,
                       !.winner = event.bidder]
  ELSE auction

\* applyConfirmedEvent(auction, event): Settled and Cancelled are terminal;
\* bid_placed counts the bid and, only if its amount exceeds the locally
\* known winning bid, replaces winning bid and winner; auction_settled
\* moves to Settled and takes winning bid and winner from the payload
applyConfirmedEvent(auction, event) ==
  IF event.auctionId # ThisAuction \/ auction.status # "Open" THEN auction
  ELSE IF event.type = "bid_placed"
  THEN IF Exceeds(event.amount, auction.winning_bid)
       THEN [auction EXCEPT !.bid_count = @ + 1,
                            !.winning_bid = event.amount,
                            !.winner = event.bidder]
       ELSE [auction EXCEPT !.bid_count = @ + 1]
  ELSE IF event.type = "auction_settled"
  THEN [auction EXCEPT !.status = "Settled", !.winning_bid = event.amount,
                       !.winner = event.bidder]
  ELSE auction

VARIABLES
  local,             \* the auction record under ThisAuction
  \* history of the run, written by no code
  lastEvent          \* the event merged by the last step

locVars == <<local, lastEvent>>

\* the auction as it was loaded from the ledger, before its settlement
LoadedAuctions ==
  { Auction(Xlm(100), Xlm(200), "Open", Null, NoWinner, 0),
    Auction(Xlm(100), Xlm(200), "Open", Xlm(150), "A", 1),
    Auction(Xlm(100), Xlm(200), "Cancelled", Null, NoWinner, 0),
    Auction(Xlm(100), Xlm(200), "Cancelled", Xlm(150), "A", 1) }

InitLocal ==
  /\ local \in LoadedAuctions
  /\ lastEvent = NoAuctionEvent

\* no auction is followed
IdleLocal ==
  /\ local = Auction(Xlm(100), Xlm(200), "Open", Null, NoWinner, 0)
  /\ lastEvent = NoAuctionEvent

\* a subscriber under 'all' is called with an event that passed the schema
\* (which leaves the payload open) and merges it
ApplyEvent ==
  /\ local.bid_count < MaxBidCount
  /\ \E e \in AuctionEvents :
       /\ PulsarEventSchema(GoodFrame(e.type))
       /\ local' = applyConfirmedEvent(local, e)
       /\ lastEvent' = e

(***************************************************************************)
(* Cross-contract validation of the campaign orchestrator, run by          *)
(* record_view before it changes any state.                                *)
(***************************************************************************)
MaxViews == 2

VARIABLES
  lifecycleContract, \* instance storage: the lifecycle address is set
  escrowContract,    \* instance storage: the escrow address is set
  targetingContract, \* instance storage: the targeting address is set
  lifecycleRec,      \* campaign-lifecycle: the campaign's record
  escrowRec,         \* escrow-vault: the campaign's escrow
  targetingRec,      \* targeting-engine: the publisher against the campaign
  views,             \* orchestrator: views recorded for the campaign
  spent,             \* orchestrator: payments made to the publisher
  \* history of the run, written by no code
  lastCall           \* what the record_view of the last step did

orcVars ==
  <<lifecycleContract, escrowContract, targetingContract, lifecycleRec,
    escrowRec, targetingRec, views, spent, lastCall>>

\* absent; Active and before its end ledger; not Active; Active and past
\* its end ledger
LifecycleRecs == {"absent", "Active", "Paused", "Expired"}

\* absent; locked_amount > 0 and releasable; locked_amount = 0; Disputed
EscrowRecs == {"absent", "funded", "empty", "disputed"}

\* no targeting configuration; publisher meets it; reputation below the
\* minimum; publisher in an excluded segment
TargetingRecs == {"none", "ok", "lowReputation", "excluded"}

LifecycleErrors == {"CampaignNotFound", "CampaignNotActive", "CampaignExpired"}

EscrowErrors == {"EscrowNotFound", "InsufficientEscrow"}

NoCall == [called |-> FALSE, result |-> "none", queries |-> <<>>,
           warnings |-> <<>>]

Verdict(result, queries, warnings) ==
  [called |-> TRUE, result |-> result, queries |-> queries,
   warnings |-> warnings]

\* the lifecycle check that takes a missing address for a missing campaign
lifecycleCheckRequired(configured, rec) ==
  IF ~configured \/ rec = "absent" THEN "CampaignNotFound"
  ELSE IF rec = "Paused" THEN "CampaignNotActive"
  ELSE IF rec = "Expired" THEN "CampaignExpired"
  ELSE "Ok"

\* step 1: skipped when the address is not configured
lifecycleCheck(configured, rec) ==
  IF ~configured THEN "Ok"
  ELSE IF rec = "absent" THEN "CampaignNotFound"
  ELSE IF rec = "Paused" THEN "CampaignNotActive"
  ELSE IF rec = "Expired" THEN "CampaignExpired"
  ELSE "Ok"

\* the escrow check that looks at the dispute only, not at the balance
escrowCheckDisputeOnly(configured, rec) ==
  IF ~configured THEN "Ok"
  ELSE IF rec = "absent" THEN "EscrowNotFound"
  ELSE IF rec = "disputed" THEN "InsufficientEscrow"
  ELSE "Ok"

\* step 2: skipped when the address is not configured
escrowCheck(configured, rec) ==
  IF ~configured THEN "Ok"
  ELSE IF rec = "absent" THEN "EscrowNotFound"
  ELSE IF rec \in {"empty", "disputed"} THEN "InsufficientEscrow"
  ELSE "Ok"

\* step 3 never fails: it warns
targetingWarnings(configured, rec) ==
  IF configured /\ rec \in {"lowReputation", "excluded"}
  THEN <<"TargetingWarning">> ELSE <<>>

Query(configured, contract) == IF configured THEN <<contract>> ELSE <<>>

\* the validation that rejects a publisher that fails the targeting
validateServingTargetingFatal ==
  LET lifecycle == lifecycleCheck(lifecycleContract, lifecycleRec)
      escrow == escrowCheck(escrowContract, escrowRec)
      first == Query(lifecycleContract, "lifecycle")
      second == first \o Query(escrowContract, "escrow")
      third == second \o Query(targetingContract, "targeting")
  IN  IF lifecycle # "Ok" THEN Verdict(lifecycle, first, <<>>)
      ELSE IF escrow # "Ok" THEN Verdict(escrow, second, <<>>)
      ELSE IF targetingWarnings(targetingContract, targetingRec) # <<>>
      THEN Verdict("TargetingFailed", third, <<>>)
      ELSE Verdict("Ok", third, <<>>)

\* the validation that queries every configured contract and then reports
\* the first failure
validateServingQueriesAll ==
  LET lifecycle == lifecycleCheck(lifecycleContract, lifecycleRec)
      escrow == escrowCheck(escrowContract, escrowRec)
      all == Query(lifecycleContract, "lifecycle") \o
             Query(escrowContract, "escrow") \o
             Query(targetingContract, "targeting")
  IN  IF lifecycle # "Ok" THEN Verdict(lifecycle, all, <<>>)
      ELSE IF escrow # "Ok" THEN Verdict(escrow, all, <<>>)
      ELSE Verdict("Ok", all,
                   targetingWarnings(targetingContract, targetingRec))

\* validateServing(campaignId, publisher): lifecycle, then escrow, then
\* targeting; the first failure is returned and nothing after it is queried
validateServing ==
  LET lifecycle == lifecycleCheck(lifecycleContract, lifecycleRec)
      escrow == escrowCheck(escrowContract, escrowRec)
      first == Query(lifecycleContract, "lifecycle")
      second == first \o Query(escrowContract, "escrow")
      third == second \o Query(targetingContract, "targeting")
  IN  IF lifecycle # "Ok" THEN Verdict(lifecycle, first, <<>>)
      ELSE IF escrow # "Ok" THEN Verdict(escrow, second, <<>>)
      ELSE Verdict("Ok", third,
                   targetingWarnings(targetingContract, targetingRec))

\* the orchestrator as deployed, with any of the addresses set, over any
\* state of the other contracts
InitOrc ==
  /\ lifecycleContract \in BOOLEAN
  /\ escrowContract \in BOOLEAN
  /\ targetingContract \in BOOLEAN
  /\ lifecycleRec \in LifecycleRecs
  /\ escrowRec \in EscrowRecs
  /\ targetingRec \in TargetingRecs
  /\ views = 0
  /\ spent = 0
  /\ lastCall = NoCall

\* the orchestrator never called
IdleOrc ==
  /\ lifecycleContract = FALSE
  /\ escrowContract = FALSE
  /\ targetingContract = FALSE
  /\ lifecycleRec = "absent"
  /\ escrowRec = "absent"
  /\ targetingRec = "none"
  /\ views = 0
  /\ spent = 0
  /\ lastCall = NoCall

\* set_lifecycle_contract(admin, contract_address)
SetLifecycleContract ==
  /\ ~lifecycleContract
  /\ lifecycleContract' = TRUE
  /\ lastCall' = NoCall
  /\ UNCHANGED <<escrowContract, targetingContract, lifecycleRec, escrowRec,
                 targetingRec, views, spent>>

\* set_escrow_contract(admin, contract_address)
SetEscrowContract ==
  /\ ~escrowContract
  /\ escrowContract' = TRUE
  /\ lastCall' = NoCall
  /\ UNCHANGED <<lifecycleContract, targetingContract, lifecycleRec, escrowRec,
                 targetingRec, views, spent>>

\* set_targeting_contract(admin, contract_address)
SetTargetingContract ==
  /\ ~targetingContract
  /\ targetingContract' = TRUE
  /\ lastCall' = NoCall
  /\ UNCHANGED <<lifecycleContract, escrowContract, lifecycleRec, escrowRec,
                 targetingRec, views, spent>>

\* the other contracts move on between two serving decisions
ContractsChange ==
  /\ lifecycleRec' \in LifecycleRecs
  /\ escrowRec' \in EscrowRecs
  /\ targetingRec' \in TargetingRecs
  /\ <<lifecycleRec', escrowRec', targetingRec'>> #
       <<lifecycleRec, escrowRec, targetingRec>>
  /\ lastCall' = NoCall
  /\ UNCHANGED <<lifecycleContract, escrowContract, targetingContract, views,
                 spent>>

\* record_view(campaign_id, publisher): validates, and only then counts
\* the view and pays the publisher; a failed validation aborts the call
RecordView ==
  /\ views < MaxViews
  /\ \E v \in {validateServing} :
       /\ lastCall' = v
       /\ views' = IF v.result = "Ok" THEN views + 1 ELSE views
       /\ spent' = IF v.result = "Ok" THEN spent + 1 ELSE spent
  /\ UNCHANGED <<lifecycleContract, escrowContract, targetingContract,
                 lifecycleRec, escrowRec, targetingRec>>

(***************************************************************************)
(* Contract gateway of the backend: read-only calls by simulation.         *)
(***************************************************************************)
\* what server.simulateTransaction resolves to: error says that the
\* response has an error property (rpc.Api.isSimulationError),
\* transactionData that it has one (rpc.Api.isSimulationSuccess), and
\* retval is result?.retval: "undefined", or the ScVal returned
SimResponse(err, transactionData, retval) ==
  [error |-> err, transactionData |-> transactionData, retval |-> retval]

ScVals == {"scvVoid", "scvBool", "scvU64", "scvString", "scvMap"}

SimResponses ==
  { SimResponse(e, t, r) :
      e \in BOOLEAN, t \in BOOLEAN, r \in {"undefined"} \cup ScVals }

ReadMethods ==
  {"get_auction", "get_auction_count", "get_campaign", "get_escrow"}

ContractIds == {"auction", "campaign", "escrow"}

\* scValToNative: an scvVoid decodes to null
scValToNative(retval) == IF retval = "scvVoid" THEN "null" ELSE retval

Thrown(message) == [kind |-> "thrown", value |-> message]

Returned(value) == [kind |-> "returned", value |-> value]

NoOutcome == [kind |-> "pending", value |-> "none"]

\* the call that raises when a successful simulation has no return value
callReadOnlyStrict(sim) ==
  IF sim.error THEN Thrown("Simulation error")
  ELSE IF ~sim.transactionData \/ sim.retval = "undefined"
  THEN Thrown("Simulation returned no result")
  ELSE Returned(scValToNative(sim.retval))

\* callReadOnly after await server.simulateTransaction(tx)
callReadOnly(sim) ==
  IF sim.error THEN Thrown("Simulation error")
  ELSE IF ~sim.transactionData THEN Thrown("Simulation returned no result")
  ELSE IF sim.retval # "undefined" THEN Returned(scValToNative(sim.retval))
  ELSE Returned("null")

VARIABLES
  gwCall,            \* the contract and method of the call in flight
  gwSim,             \* what the simulation of that call resolved to
  gwOutcome          \* how the call ended: pending, thrown or returned

gwVars == <<gwCall, gwSim, gwOutcome>>

NoSim == SimResponse(FALSE, FALSE, "none")

\* a caller starts callReadOnly(contractId, method, args)
InitGw ==
  /\ gwCall \in ContractIds \X ReadMethods
  /\ gwSim = NoSim
  /\ gwOutcome = NoOutcome

\* the gateway never called
IdleGw ==
  /\ gwCall = <<"auction", "get_auction">>
  /\ gwSim = NoSim
  /\ gwOutcome = NoOutcome

\* the simulation resolves and callReadOnly runs to its end
SimulationResolves ==
  /\ gwOutcome = NoOutcome
  /\ \E sim \in SimResponses :
       /\ gwSim' = sim
       /\ gwOutcome' = callReadOnly(sim)
  /\ UNCHANGED gwCall

\* the next call starts
CallReadOnly ==
  /\ gwOutcome # NoOutcome
  /\ gwCall' \in ContractIds \X ReadMethods
  /\ gwSim' = NoSim
  /\ gwOutcome' = NoOutcome

(***************************************************************************)
(* Wallet: the Freighter extension, lib/wallet, the wallet store and the   *)
(* useWallet hook.                                                         *)
(***************************************************************************)
\* CURRENT_NETWORK
NetworkTypes == {"mainnet", "testnet", "futurenet"}

\* what getNetworkDetails answers: the passphrase of one of the three
\* networks or of a custom one, a result with an error, or a rejection
FreighterNetworks ==
  {"PUBLIC", "TESTNET", "FUTURENET", "custom", "error", "throws"}

\* NETWORKS[CURRENT_NETWORK].passphrase
getNetworkPassphrase(network) ==
  IF network = "mainnet" THEN "PUBLIC"
  ELSE IF network = "testnet" THEN "TESTNET"
  ELSE "FUTURENET"

\* the verification that lets an unreadable network through
verifyNetworkLenient(details, network) ==
  details \in {"error", "throws"} \/ details = getNetworkPassphrase(network)

\* verifyNetwork, given what getNetworkDetails answers
verifyNetwork(details, network) ==
  /\ details \notin {"error", "throws"}
  /\ details = getNetworkPassphrase(network)

\* getFreighterNetworkLabel, given what getNetworkDetails answers
getFreighterNetworkLabel(details) ==
  IF details \in {"error", "throws"} THEN "null"
  ELSE IF details = "TESTNET" THEN "testnet"
  ELSE IF details = "PUBLIC" THEN "public"
  ELSE "unknown"

\* isWalletConnected: the extension is there and has allowed the site
isWalletConnected(installed, allowed) == installed /\ allowed

\* getWalletAddress: result.address || null of a connected wallet
getWalletAddress(installed, allowed, account) ==
  IF isWalletConnected(installed, allowed) THEN account ELSE "null"

VARIABLES
  freighterConnected, \* Freighter: isConnected() answers true
  freighterAllowed,   \* Freighter: isAllowed() answers true
  freighterAddress,   \* Freighter: what getAddress() answers, or no address
  freighterDetails,   \* Freighter: what getNetworkDetails() answers
  currentNetwork,     \* stellar-config: CURRENT_NETWORK
  storeAddress,       \* wallet store: address
  isConnected,        \* wallet store: isConnected
  networkMismatch,    \* wallet store: networkMismatch
  freighterNetwork,   \* wallet store: freighterNetwork
  signPc,             \* signTx: idle, or the await it is suspended at
  signOutcome,        \* signTx: how the last call ended
  \* history of the run, written by no code
  lastWallet          \* the operation of the last step

walletVars ==
  <<freighterConnected, freighterAllowed, freighterAddress, freighterDetails,
    currentNetwork, storeAddress, isConnected, networkMismatch,
    freighterNetwork, signPc, signOutcome, lastWallet>>

freighterVars ==
  <<freighterConnected, freighterAllowed, freighterAddress, freighterDetails,
    currentNetwork>>

storeVars == <<storeAddress, isConnected, networkMismatch, freighterNetwork>>

signVars == <<signPc, signOutcome>>

\* the store as created, before any operation
NewStore ==
  /\ storeAddress = "null"
  /\ isConnected = FALSE
  /\ networkMismatch = FALSE
  /\ freighterNetwork = "null"
  /\ signPc = "idle"
  /\ signOutcome = NoOutcome
  /\ lastWallet = "new"

\* the page loads with Freighter in any state
InitWallet ==
  /\ freighterConnected \in BOOLEAN
  /\ freighterAllowed \in BOOLEAN
  /\ freighterAddress \in Addresses
  /\ freighterDetails \in FreighterNetworks
  /\ currentNetwork \in NetworkTypes
  /\ NewStore

\* the wallet never used
IdleWallet ==
  /\ freighterConnected = FALSE
  /\ freighterAllowed = FALSE
  /\ freighterAddress = "null"
  /\ freighterDetails = "TESTNET"
  /\ currentNetwork = "testnet"
  /\ NewStore

\* the user installs or removes the extension, grants or revokes access,
\* locks the wallet or switches account, or switches network
FreighterChanges ==
  /\ \/ /\ freighterConnected' = ~freighterConnected
        /\ UNCHANGED <<freighterAllowed, freighterAddress, freighterDetails>>
     \/ /\ freighterAllowed' = ~freighterAllowed
        /\ UNCHANGED <<freighterConnected, freighterAddress, freighterDetails>>
     \/ /\ freighterAddress' \in Addresses \ {freighterAddress}
        /\ UNCHANGED <<freighterConnected, freighterAllowed, freighterDetails>>
     \/ /\ freighterDetails' \in FreighterNetworks \ {freighterDetails}
        /\ UNCHANGED <<freighterConnected, freighterAllowed, freighterAddress>>
  /\ lastWallet' = "freighter"
  /\ UNCHANGED <<currentNetwork, storeVars, signVars>>

\* useWallet.connect: connectWallet (which throws without the extension,
\* when access is refused, or without an address), then the store updates
Connecting ==
  /\ lastWallet' = "connect"
  /\ \E granted \in BOOLEAN :
       IF freighterConnected /\ granted /\ freighterAddress # "null"
       THEN /\ freighterAllowed' = TRUE
            /\ storeAddress' = freighterAddress
            /\ isConnected' = TRUE
            /\ freighterNetwork' = getFreighterNetworkLabel(freighterDetails)
            /\ networkMismatch' = ~verifyNetwork(freighterDetails,
                                                 currentNetwork)
       ELSE /\ freighterAllowed' = (freighterAllowed \/
                                    (freighterConnected /\ granted))
            /\ UNCHANGED storeVars
  /\ UNCHANGED <<freighterConnected, freighterAddress, freighterDetails,
                 currentNetwork, signVars>>

\* the store's disconnect
storeDisconnect ==
  /\ storeAddress' = "null"
  /\ isConnected' = FALSE
  /\ networkMismatch' = FALSE
  /\ freighterNetwork' = "null"

\* useWallet.disconnect
Disconnecting ==
  /\ lastWallet' = "disconnect"
  /\ storeDisconnect
  /\ UNCHANGED <<freighterVars, signVars>>

\* useWallet.checkConnection, run every 3 s
CheckConnection ==
  /\ lastWallet' = "checkConnection"
  /\ \E connected \in {isWalletConnected(freighterConnected, freighterAllowed)},
        addr \in {getWalletAddress(freighterConnected, freighterAllowed,
                                   freighterAddress)} :
       IF connected /\ addr # "null" /\ addr # storeAddress
       THEN /\ networkMismatch' = ~verifyNetwork(freighterDetails,
                                                 currentNetwork)
            /\ storeAddress' = addr
            /\ isConnected' = TRUE
            /\ UNCHANGED freighterNetwork
       ELSE IF connected /\ addr = storeAddress
       THEN /\ networkMismatch' = ~verifyNetwork(freighterDetails,
                                                 currentNetwork)
            /\ isConnected' = TRUE
            /\ UNCHANGED <<storeAddress, freighterNetwork>>
       ELSE IF isConnected /\ ~connected
       THEN storeDisconnect
       ELSE /\ networkMismatch' =
                 (~verifyNetwork(freighterDetails, currentNetwork) /\ connected)
            /\ UNCHANGED <<storeAddress, isConnected, freighterNetwork>>
  /\ UNCHANGED <<freighterVars, signVars>>

\* the store's autoReconnect, run when useWallet mounts
AutoReconnect ==
  /\ lastWallet' = "autoReconnect"
  /\ IF ~isWalletConnected(freighterConnected, freighterAllowed)
     THEN storeDisconnect
     ELSE \E addr \in {getWalletAddress(freighterConnected, freighterAllowed,
                                        freighterAddress)} :
            /\ storeAddress' = addr
            /\ isConnected' = (addr # "null")
            /\ freighterNetwork' = getFreighterNetworkLabel(freighterDetails)
            /\ networkMismatch' = ~verifyNetwork(freighterDetails,
                                                 currentNetwork)
  /\ UNCHANGED <<freighterVars, signVars>>

\* signTx(txXdr) is called and awaits verifyNetwork()
SignTx ==
  /\ signPc = "idle"
  /\ signPc' = "verifyNetwork"
  /\ signOutcome' = NoOutcome
  /\ lastWallet' = "signTx"
  /\ UNCHANGED <<freighterVars, storeVars>>

\* verifyNetwork resolves: signTx calls signTransaction, or goes on to
\* read the label for its error
VerifyNetworkResolves ==
  /\ signPc = "verifyNetwork"
  /\ signPc' = IF verifyNetwork(freighterDetails, currentNetwork)
               THEN "signTransaction" ELSE "getFreighterNetworkLabel"
  /\ lastWallet' = "verified"
  /\ UNCHANGED <<freighterVars, storeVars, signOutcome>>

\* getFreighterNetworkLabel resolves and signTx throws
LabelResolves ==
  /\ signPc = "getFreighterNetworkLabel"
  /\ signPc' = "idle"
  /\ \E label \in {getFreighterNetworkLabel(freighterDetails)} :
       signOutcome' = Thrown(<<"Network mismatch",
                               IF label = "null" THEN "unknown" ELSE label,
                               currentNetwork>>)
  /\ lastWallet' = "labelled"
  /\ UNCHANGED <<freighterVars, storeVars>>

\* signTransaction resolves, with the signed transaction or with an error
SignTransactionResolves ==
  /\ signPc = "signTransaction"
  /\ signPc' = "idle"
  /\ signOutcome' \in {Returned("signedTxXdr"), Thrown("result.error")}
  /\ lastWallet' = "signed"
  /\ UNCHANGED <<freighterVars, storeVars>>

(***************************************************************************)
(* The list queries of useContract: usePublisherAuctions,                  *)
(* useAdvertiserCampaigns and useGovernanceProposals read the records      *)
(* 1..count with one callReadOnly each, all started before any is awaited. *)
(***************************************************************************)
MaxCount == 3

\* the query keys
ListHooks ==
  {"publisher_auctions", "advertiser_campaigns", "governance_proposals"}

\* the address that the query is made for
OwnerAddress == "A"

\* what one callReadOnly ends with: an error, null (no such record), or the
\* record, of which the model keeps the publisher / advertiser / proposer
ReadResponses == {"thrown", "null", "A", "B"}

VARIABLES
  listHook,      \* the hook that runs
  listCount,     \* auctionCount / campaignCount / proposalCount
  listResp,      \* what the read of each id ends with
  listPc,        \* queryFn: idle, awaiting (Promise.all), done
  listPending,   \* the ids whose promise is not settled
  listRejected,  \* some promise of promises was rejected
  listAcc,       \* the array the .then callbacks push to: ids, as pushed
  listOutcome    \* what queryFn returned or threw

listVars ==
  <<listHook, listCount, listResp, listPc, listPending, listRejected,
    listAcc, listOutcome>>

\* the test of the .then callback: the record is truthy and, in the two
\* hooks that take an address, its publisher / advertiser is that address
keeps(hook, resp, address) ==
  /\ resp \notin {"thrown", "null"}
  /\ hook # "governance_proposals" => resp = address

\* callReadOnly(...).then(push when kept).catch(() => null): what the
\* promise in promises settles as, and whether the id was pushed
settle(hook, resp, address) ==
  [push |-> keeps(hook, resp, address), rejected |-> FALSE]

\* Array.prototype.sort with (a, b) => Number(b.id) - Number(a.id): a
\* stable sort, as an insertion from the left
RECURSIVE insertDesc(_, _)
insertDesc(sorted, id) ==
  IF sorted = <<>> THEN <<id>>
  ELSE IF Head(sorted) - id < 0 THEN <<id>> \o sorted
  ELSE <<Head(sorted)>> \o insertDesc(Tail(sorted), id)

RECURSIVE sortDesc(_)
sortDesc(array) ==
  IF array = <<>> THEN <<>>
  ELSE insertDesc(sortDesc(SubSeq(array, 1, Len(array) - 1)),
                  array[Len(array)])

\* the value returned without the sort
queryResultUnsorted(array) == array

\* return auctions.sort((a, b) => Number(b.id) - Number(a.id))
queryResult(array) == sortDesc(array)

InitQuery ==
  /\ listHook \in ListHooks
  /\ listCount \in 0..MaxCount
  /\ listResp \in [1..listCount -> ReadResponses]
  /\ listPc = "idle"
  /\ listPending = {}
  /\ listRejected = FALSE
  /\ listAcc = <<>>
  /\ listOutcome = NoOutcome

\* no list query
IdleQuery ==
  /\ listHook = "publisher_auctions"
  /\ listCount = 0
  /\ listResp = <<>>
  /\ listPc = "idle"
  /\ listPending = {}
  /\ listRejected = FALSE
  /\ listAcc = <<>>
  /\ listOutcome = NoOutcome

\* queryFn up to await Promise.all(promises): [] without a count, and
\* otherwise one read started for each id of 1..count
QueryFn ==
  /\ listPc = "idle"
  /\ IF listCount = 0
     THEN /\ listPc' = "done"
          /\ listOutcome' = Returned(<<>>)
          /\ UNCHANGED listPending
     ELSE /\ listPc' = "awaiting"
          /\ listPending' = 1..listCount
          /\ UNCHANGED listOutcome
  /\ UNCHANGED <<listHook, listCount, listResp, listRejected, listAcc>>

\* one of the reads ends, whichever: its .then or its .catch runs
ReadSettles ==
  \E i \in listPending :
    \E settled \in {settle(listHook, listResp[i], OwnerAddress)} :
      /\ listPc = "awaiting"
      /\ listPending' = listPending \ {i}
      /\ listAcc' = IF settled.push THEN Append(listAcc, i) ELSE listAcc
      /\ listRejected' = (listRejected \/ settled.rejected)
      /\ UNCHANGED <<listHook, listCount, listResp, listPc, listOutcome>>

\* Promise.all settles: rejected with the first promise rejected,
\* fulfilled when every promise is; queryFn then returns the sorted array
PromiseAll ==
  /\ listPc = "awaiting"
  /\ listRejected \/ listPending = {}
  /\ listPc' = "done"
  /\ listOutcome' = IF listRejected THEN Thrown("rejected")
                    ELSE Returned(queryResult(listAcc))
  /\ UNCHANGED <<listHook, listCount, listResp, listPending, listRejected,
                 listAcc>>

(***************************************************************************)
(* Specifications.                                                         *)
(***************************************************************************)
\* the components added last, which the older ones leave alone
moreVars == <<gwVars, walletVars, clockVars, listVars>>

vars == <<wsVars, wsHist, bidVars, locVars, orcVars, moreVars>>

\* those components, unused
IdleMore == IdleGw /\ IdleWallet /\ IdleClock /\ IdleQuery

\* what the bid form and the auction list leave alone
exceptBid == <<wsVars, wsHist, locVars, orcVars, moreVars>>

\* what the event stream client leaves alone
exceptWs == <<bidVars, locVars, orcVars, moreVars>>

\* what the merge of events leaves alone
exceptLocal == <<wsVars, wsHist, bidVars, orcVars, moreVars>>

\* what the orchestrator leaves alone
exceptOrc == <<wsVars, wsHist, bidVars, locVars, moreVars>>

\* what the newer components leave alone
exceptMore == <<wsVars, wsHist, bidVars, locVars, orcVars>>

\* the event stream client, unused by the bid form
IdleWs ==
  /\ ws = 0
  /\ sockets = <<>>
  /\ handlers = [k \in HandlerKey |-> <<>>]
  /\ reconnectTimer = 0
  /\ reconnectAttempts = 0
  /\ timers = {}
  /\ nextTimer = 1
  /\ connects = 0
  /\ urlOk = TRUE
  /\ regs = <<>>
  /\ lastAct = "new"
  /\ lastFrame = NoFrame
  /\ emitted = NoEvent
  /\ delivered = <<>>
  /\ manualConnects = 0
  /\ autoConnects = 0
  /\ everOpened = FALSE
  /\ shutdown = FALSE

\* the bid form over every auction it may be shown
NextBidForm ==
  \/ TypeBid(FormTexts) /\ UNCHANGED exceptBid
  \/ TypeCampaign /\ UNCHANGED exceptBid
  \/ HandleSubmit /\ UNCHANGED exceptBid

InitForm == InitBidForm /\ IdleWs /\ IdleLocal /\ IdleOrc /\ IdleMore

SpecBidForm == InitForm /\ [][NextBidForm]_vars

\* one auction from its creation, its list and its bid form
NextAuction ==
  \/ Refresh /\ UNCHANGED exceptBid
  \/ OpenBidForm /\ UNCHANGED exceptBid
  \/ CancelBidForm /\ UNCHANGED exceptBid
  \/ TypeBid(ScenarioTexts) /\ UNCHANGED exceptBid
  \/ TypeCampaign /\ UNCHANGED exceptBid
  \/ HandleSubmit /\ UNCHANGED exceptBid
  \/ Settle /\ UNCHANGED exceptBid
  \/ CancelAuction /\ UNCHANGED exceptBid

InitList == InitAuction /\ IdleWs /\ IdleLocal /\ IdleOrc /\ IdleMore

SpecAuction == InitList /\ [][NextAuction]_vars

\* that auction while the clock of the browser passes its end_time
NextExpiry ==
  \/ Tick /\ UNCHANGED <<wsVars, wsHist, locVars, orcVars, gwVars, walletVars,
                         listVars>>
  \/ Refresh /\ UNCHANGED exceptBid
  \/ OpenBidForm /\ UNCHANGED exceptBid
  \/ CancelBidForm /\ UNCHANGED exceptBid
  \/ TypeBid(ScenarioTexts) /\ UNCHANGED exceptBid
  \/ TypeCampaign /\ UNCHANGED exceptBid
  \/ HandleSubmit /\ UNCHANGED exceptBid
  \/ Settle /\ UNCHANGED exceptBid
  \/ CancelAuction /\ UNCHANGED exceptBid

InitExpiry ==
  /\ InitAuction /\ InitClock /\ IdleWs /\ IdleLocal /\ IdleOrc
  /\ IdleGw /\ IdleWallet /\ IdleQuery

SpecExpiry == InitExpiry /\ [][NextExpiry]_vars

\* the connection life cycle, without subscribers
NextConn ==
  \/ Connect(MaxConnects) /\ UNCHANGED exceptWs
  \/ TimerFire(MaxConnects) /\ UNCHANGED exceptWs
  \/ OnOpen /\ UNCHANGED exceptWs
  \/ OnError /\ UNCHANGED exceptWs
  \/ OnClose /\ UNCHANGED exceptWs
  \/ Disconnect /\ UNCHANGED exceptWs

InitConn == InitWs /\ InitAuction /\ IdleLocal /\ IdleOrc /\ IdleMore

SpecConn == InitConn /\ [][NextConn]_vars

\* subscriptions and delivery, over a few connections
NextSub ==
  \/ On(RegKeys, Handlers) /\ UNCHANGED exceptWs
  \/ Unsubscribe /\ UNCHANGED exceptWs
  \/ Connect(MaxSubConnects) /\ UNCHANGED exceptWs
  \/ TimerFire(MaxSubConnects) /\ UNCHANGED exceptWs
  \/ OnOpen /\ UNCHANGED exceptWs
  \/ OnMessage /\ UNCHANGED exceptWs
  \/ OnError /\ UNCHANGED exceptWs
  \/ OnClose /\ UNCHANGED exceptWs
  \/ Disconnect /\ UNCHANGED exceptWs

InitSub == InitWs /\ urlOk /\ InitAuction /\ IdleLocal /\ IdleOrc /\ IdleMore

SpecSub == InitSub /\ [][NextSub]_vars

\* inbound frames and their delivery to subscribers that stay subscribed
NextMsg ==
  \/ On(MsgKeys, MsgHandlers) /\ UNCHANGED exceptWs
  \/ Connect(MaxSubConnects) /\ UNCHANGED exceptWs
  \/ TimerFire(MaxSubConnects) /\ UNCHANGED exceptWs
  \/ OnOpen /\ UNCHANGED exceptWs
  \/ OnMessage /\ UNCHANGED exceptWs
  \/ OnError /\ UNCHANGED exceptWs
  \/ OnClose /\ UNCHANGED exceptWs
  \/ Disconnect /\ UNCHANGED exceptWs

SpecMsg == InitSub /\ [][NextMsg]_vars

\* confirmed events merged into one locally known auction
NextLocal ==
  \/ ApplyEvent /\ UNCHANGED exceptLocal

InitMerge == InitLocal /\ IdleWs /\ InitAuction /\ IdleOrc /\ IdleMore

SpecLocal == InitMerge /\ [][NextLocal]_vars

\* serving decisions of the orchestrator
NextOrc ==
  \/ SetLifecycleContract /\ UNCHANGED exceptOrc
  \/ SetEscrowContract /\ UNCHANGED exceptOrc
  \/ SetTargetingContract /\ UNCHANGED exceptOrc
  \/ ContractsChange /\ UNCHANGED exceptOrc
  \/ RecordView /\ UNCHANGED exceptOrc

InitServing == InitOrc /\ IdleWs /\ InitAuction /\ IdleLocal /\ IdleMore

SpecOrc == InitServing /\ [][NextOrc]_vars

\* the older components, unused
IdleCore == IdleWs /\ InitAuction /\ IdleLocal /\ IdleOrc

\* read-only calls through the gateway
NextGw ==
  \/ SimulationResolves /\ UNCHANGED <<exceptMore, walletVars, clockVars, listVars>>
  \/ CallReadOnly /\ UNCHANGED <<exceptMore, walletVars, clockVars, listVars>>

InitGateway ==
  InitGw /\ IdleWallet /\ IdleClock /\ IdleQuery /\ IdleCore

SpecGw == InitGateway /\ [][NextGw]_vars

\* the wallet store under the operations of useWallet
NextWallet ==
  \/ FreighterChanges /\ UNCHANGED <<exceptMore, gwVars, clockVars, listVars>>
  \/ Connecting /\ UNCHANGED <<exceptMore, gwVars, clockVars, listVars>>
  \/ Disconnecting /\ UNCHANGED <<exceptMore, gwVars, clockVars, listVars>>
  \/ CheckConnection /\ UNCHANGED <<exceptMore, gwVars, clockVars, listVars>>
  \/ AutoReconnect /\ UNCHANGED <<exceptMore, gwVars, clockVars, listVars>>

InitStore ==
  InitWallet /\ IdleGw /\ IdleClock /\ IdleQuery /\ IdleCore

SpecWallet == InitStore /\ [][NextWallet]_vars

\* signing with the wallet, while its user may switch network
NextSign ==
  \/ FreighterChanges /\ UNCHANGED <<exceptMore, gwVars, clockVars, listVars>>
  \/ SignTx /\ UNCHANGED <<exceptMore, gwVars, clockVars, listVars>>
  \/ VerifyNetworkResolves /\ UNCHANGED <<exceptMore, gwVars, clockVars, listVars>>
  \/ LabelResolves /\ UNCHANGED <<exceptMore, gwVars, clockVars, listVars>>
  \/ SignTransactionResolves /\ UNCHANGED <<exceptMore, gwVars, clockVars, listVars>>

SpecSign == InitStore /\ [][NextSign]_vars

\* one run of a list query, its reads ending in any order
NextQuery ==
  \/ QueryFn /\ UNCHANGED <<exceptMore, gwVars, walletVars, clockVars>>
  \/ ReadSettles /\ UNCHANGED <<exceptMore, gwVars, walletVars, clockVars>>
  \/ PromiseAll /\ UNCHANGED <<exceptMore, gwVars, walletVars, clockVars>>

InitListQuery ==
  InitQuery /\ IdleGw /\ IdleWallet /\ IdleClock /\ IdleCore

SpecQuery == InitListQuery /\ [][NextQuery]_vars

(***************************************************************************)
(* Properties of the bid form.  The comparisons of the properties are      *)
(* exact: a text n / 10^k XLM is n * 10^(7-k) stroops.                     *)
(***************************************************************************)
RECURSIVE BigTimesTen(_, _)
BigTimesTen(a, j) == IF j = 0 THEN a ELSE BigTimesTen(BigMulSmall(a, 10, 0), j - 1)

TextPositive(text) == ~text.empty /\ ~text.neg /\ text.n > 0

TextStroops(text) == BigTimesTen(BigFromInt(text.n), 7 - text.k)

\* amount < floorPrice
TextBelow(text, stroops) == BigLess(TextStroops(text), BigFromInt(stroops))

\* 100 * amount < 105 * currentWinningBid
TextBelowIncrement(text, bid) ==
  BigLess(BigMulSmall(TextStroops(text), 100, 0),
          BigMulSmall(BigFromInt(bid), 105, 0))

\* a complete form was submitted with a positive amount
BidSubmitted ==
  /\ lastSubmit.done
  /\ TextPositive(lastSubmit.text)
  /\ lastSubmit.campaign # ""

\* C1: every amount strictly below the floor price is rejected as below the
\* floor, whether or not the auction has a winning bid.
C1_BelowFloorRejected ==
  (BidSubmitted /\ TextBelow(lastSubmit.text, lastSubmit.auction.floor_price))
    => /\ ~lastSubmit.passed
       /\ lastSubmit.error = ErrMinimum
       /\ lastSubmit.min = floorXlm(lastSubmit.auction)

\* C2: with a winning bid w, an amount a is rejected for the increment
\* exactly when 100 * a < 105 * w, and passes validation otherwise.
C2_MinIncrementExact ==
  (BidSubmitted /\ lastSubmit.auction.winning_bid > 0)
    => IF TextBelowIncrement(lastSubmit.text, lastSubmit.auction.winning_bid)
       THEN ~lastSubmit.passed /\ lastSubmit.error = ErrMinimum
       ELSE lastSubmit.passed

\* C3: a bid on an auction that the list shows as Settled or Cancelled is
\* rejected by the form and never handed to placeBid, also when the auction
\* left Open while its form was open.
C3_NotOpenRejected ==
  (BidSubmitted /\ lastSubmit.known.status # "Open") => ~lastSubmit.passed

ScenarioStart == Auction(Xlm(100), Xlm(200), "Open", Null, NoWinner, 0)

ScenarioAfterA ==
  [ScenarioStart EXCEPT !.winning_bid = Xlm(150), !.winner = "A",
                        !.bid_count = 1]

ScenarioAfterB ==
  [ScenarioAfterA EXCEPT !.winning_bid = Xlm(200), !.winner = "B",
                         !.bid_count = 2]

\* a submit of text by address on a form that shows the auction as the
\* contract holds it
ScenarioBid(auction, address, text) ==
  /\ BidSubmitted
  /\ lastSubmit.before = auction
  /\ lastSubmit.auction = auction
  /\ lastSubmit.address = address
  /\ lastSubmit.text = text

\* C4: floor 100, reserve 200: A bids 150 and wins; B's 155 is rejected for
\* the increment; B's 200 wins; once the auction is known to be settled
\* every bid is rejected.
C4_EndToEnd ==
  /\ ScenarioBid(ScenarioStart, "A", Dec(150, 0))
       => lastSubmit.accepted /\ ledger = ScenarioAfterA
  /\ ScenarioBid(ScenarioAfterA, "B", Dec(155, 0))
       => /\ ~lastSubmit.passed
          /\ lastSubmit.error = ErrMinimum
          /\ ledger = ScenarioAfterA
  /\ ScenarioBid(ScenarioAfterA, "B", Dec(200, 0))
       => lastSubmit.accepted /\ ledger = ScenarioAfterB
  /\ (BidSubmitted /\ lastSubmit.before.status = "Settled"
        /\ lastSubmit.known.status = "Settled")
       => ~lastSubmit.passed

(***************************************************************************)
(* Properties of the event stream client.                                  *)
(***************************************************************************)
\* the frame is not JSON, or breaks a rule of the event envelope
FrameViolatesSchema(frame) ==
  \/ ~frame.json
  \/ frame.type \notin EventType
  \/ frame.data # "object"
  \/ frame.timestamp # "number"
  \/ frame.txHash \notin {"missing", "string"}

\* C5: a frame that is not JSON or fails the event schema invokes no
\* callback, emits nothing, and leaves the connection, the retry state and
\* the subscriptions as they were.
C5_InvalidFrameDropped ==
  [][(lastAct' = "onmessage" /\ FrameViolatesSchema(lastFrame'))
       => /\ delivered' = <<>>
          /\ emitted' = NoEvent
          /\ UNCHANGED wsVars]_vars

\* an invalid frame arrived while callbacks were registered under its type
\* and under 'all'
C5_InvalidFrameSeen ==
  /\ lastAct = "onmessage"
  /\ FrameViolatesSchema(lastFrame)
  /\ lastFrame.type = "bid_placed"
  /\ handlers["bid_placed"] # <<>>
  /\ handlers["all"] # <<>>

\* C6: after a single connect() whose attempts all fail, the timer makes at
\* most maxReconnectAttempts connection attempts, and once it has made them
\* no timer is pending.
C6_ReconnectCap ==
  (manualConnects = 1 /\ ~everOpened)
    => /\ autoConnects <= maxReconnectAttempts
       /\ autoConnects = maxReconnectAttempts => timers = {}

\* the cap was reached: one connect(), five retries, every socket closed
C6_GaveUp ==
  /\ manualConnects = 1
  /\ ~everOpened
  /\ autoConnects = maxReconnectAttempts
  /\ reconnectAttempts = maxReconnectAttempts
  /\ Len(sockets) = maxReconnectAttempts + 1
  /\ \A s \in 1..Len(sockets) : sockets[s] = "closed"
  /\ timers = {}

\* C7: between disconnect() and the next connect() the timer opens no
\* connection and no connection opens.
C7_NoReconnectAfterDisconnect ==
  shutdown => lastAct \notin {"reconnect", "onopen"} /\ emitted # "connected"

\* the callbacks that the last step invoked for their registration under key
RECURSIVE CallsUnder(_, _)
CallsUnder(key, calls) ==
  IF calls = <<>> THEN <<>>
  ELSE IF Head(calls).key = key
       THEN <<Head(calls).h>> \o CallsUnder(key, Tail(calls))
       ELSE CallsUnder(key, Tail(calls))

\* C8: the callbacks registered under 'connected' are invoked once each by
\* a connection that opens, and by nothing else.
C8_ConnectedOncePerOpen ==
  IF lastAct = "onopen"
  THEN CallsUnder("connected", delivered) = handlers["connected"]
  ELSE CallsUnder("connected", delivered) = <<>>

\* C9: an emitted event invokes, once each, the callbacks registered under
\* its type and those registered under 'all', and no other.
C9_Routing ==
  emitted # NoEvent
    => delivered = Tag(emitted, handlers[emitted]) \o
                   Tag("all", handlers["all"])

\* the callbacks of the on() calls under key that were not unsubscribed
RECURSIVE ActiveUnder(_, _)
ActiveUnder(key, rs) ==
  IF rs = <<>> THEN <<>>
  ELSE IF Head(rs).key = key /\ Head(rs).active
       THEN <<Head(rs).h>> \o ActiveUnder(key, Tail(rs))
       ELSE ActiveUnder(key, Tail(rs))

\* C10: the registered callbacks are those of the on() calls whose own
\* unsubscribe function was not called, whatever else was unsubscribed and
\* however often.
C10_UnsubscribeExact ==
  \A key \in HandlerKey : handlers[key] = ActiveUnder(key, regs)

IsPrefix(p, q) == Len(p) <= Len(q) /\ p = SubSeq(q, 1, Len(p))

\* C11: callbacks run only in the step in which a message arrives (or the
\* connection opens or fails), for the event of that very message, each
\* registration at most once and in registration order: nothing is kept
\* back, repeated, or delivered later, such as after a reconnect.
C11_ArrivalOrder ==
  [][/\ delivered' # <<>> => lastAct' \in {"onmessage", "onopen", "onerror"}
     /\ (lastAct' = "onmessage" /\ emitted' # NoEvent)
          => ~FrameViolatesSchema(lastFrame') /\ emitted' = lastFrame'.type
     /\ lastAct' = "onopen" => emitted' = "connected"
     /\ lastAct' = "onerror" => emitted' = "error"
     /\ emitted' = NoEvent => delivered' = <<>>
     /\ emitted' # NoEvent
          => IsPrefix(delivered', Tag(emitted', handlers[emitted']) \o
                                  Tag("all", handlers["all"]))]_vars

\* a message arrived on a connection that the retry timer opened, and went
\* to a callback of its type and to a wildcard callback
C11_DeliveredAfterReconnect ==
  /\ lastAct = "onmessage"
  /\ emitted = "bid_placed"
  /\ autoConnects >= 1
  /\ \E i, j \in 1..Len(delivered) :
       delivered[i].key = "bid_placed" /\ delivered[j].key = "all"

\* the sockets whose onopen, onmessage and onerror can still run
LiveSockets == {s \in 1..Len(sockets) : sockets[s] \in {"connecting", "open"}}

BidPlacedApplied(event) ==
  event.type = "bid_placed" /\ event.auctionId = ThisAuction

\* C13: while the auction is Open, a bid_placed event whose amount does not
\* exceed the locally known winning bid leaves winning bid and winner as
\* they are, and no bid_placed event lowers or clears the winning bid.
C13_NoDowngrade ==
  [][BidPlacedApplied(lastEvent')
       => /\ (local.status = "Open" /\
              ~Exceeds(lastEvent'.amount, local.winning_bid))
               => /\ local'.winning_bid = local.winning_bid
                  /\ local'.winner = local.winner
          /\ local.winning_bid # Null
               => /\ local'.winning_bid # Null
                  /\ local'.winning_bid >= local.winning_bid]_vars

\* a lower bid of another bidder was merged into an Open auction that
\* knows a higher one
C13_StaleBidSeen ==
  /\ local.status = "Open"
  /\ BidPlacedApplied(lastEvent)
  /\ lastEvent.amount # Null
  /\ lastEvent.amount < local.winning_bid
  /\ lastEvent.bidder # local.winner

\* C14: a Settled or Cancelled auction keeps its status in every step, and
\* a Settled auction keeps the winning bid and the winner of its settlement.
C14_Terminal ==
  [][/\ local.status \in {"Settled", "Cancelled"}
          => local'.status = local.status
     /\ local.status = "Settled"
          => /\ local'.winning_bid = local.winning_bid
             /\ local'.winner = local.winner]_vars

\* a bid_placed event above the settled winning bid reached the Settled
\* auction
C14_BidAfterSettlement ==
  /\ local.status = "Settled"
  /\ BidPlacedApplied(lastEvent)
  /\ local.winning_bid # Null
  /\ lastEvent.amount > local.winning_bid

\* C15: a Settled auction has a winning bid and a winner.
C15_SettledHasWinner ==
  local.status = "Settled"
    => local.winning_bid # Null /\ local.winner # NoWinner

\* C17: the bid count grows by one in a step that merges a bid_placed event
\* into the Open auction, and stays as it is in every other step.
C17_BidCount ==
  [][local'.bid_count =
       IF BidPlacedApplied(lastEvent') /\ local.status = "Open"
       THEN local.bid_count + 1 ELSE local.bid_count]_vars

\* two bids were counted, the last of which did not become the winning bid
C17_CountedWithoutWinning ==
  /\ local.status = "Open"
  /\ local.bid_count >= 2
  /\ BidPlacedApplied(lastEvent)
  /\ ~(lastEvent.amount = local.winning_bid /\ lastEvent.bidder = local.winner)

\* the auction as the contract holds it and as the list and the open bid
\* form show it
AuctionViews ==
  {ledger, auctions} \cup (IF biddingOn = NoForm THEN {} ELSE {biddingOn})

ConfiguredOrder ==
  SelectSeq(<<"lifecycle", "escrow", "targeting">>,
            LAMBDA c : \/ c = "lifecycle" /\ lifecycleContract
                       \/ c = "escrow" /\ escrowContract
                       \/ c = "targeting" /\ targetingContract)

LifecycleFails == lifecycleContract /\ lifecycleRec # "Active"

EscrowFails == escrowContract /\ escrowRec # "funded"

\* C18: a call queries the configured contracts in the order lifecycle,
\* escrow, targeting and stops at the first that fails: a lifecycle failure
\* is returned with only the lifecycle contract queried, an escrow failure
\* with the targeting contract not queried, and a failed call leaves the
\* view count and the payments as they were.
C18_FailFast ==
  [][lastCall'.called
       => /\ IsPrefix(lastCall'.queries, ConfiguredOrder)
          /\ LifecycleFails
               => /\ lastCall'.result \in LifecycleErrors
                  /\ lastCall'.queries = <<"lifecycle">>
          /\ (~LifecycleFails /\ EscrowFails)
               => /\ lastCall'.result \in EscrowErrors
                  /\ lastCall'.queries # <<>>
                  /\ lastCall'.queries[Len(lastCall'.queries)] = "escrow"
          /\ (~LifecycleFails /\ ~EscrowFails)
               => /\ lastCall'.result = "Ok"
                  /\ lastCall'.queries = ConfiguredOrder
          /\ lastCall'.result # "Ok"
               => /\ views' = views
                  /\ spent' = spent
                  /\ lastCall'.warnings = <<>>]_vars

\* a call failed at the lifecycle check while the escrow was empty and the
\* publisher excluded, with all three contracts configured
C18_StoppedAtLifecycle ==
  /\ lastCall.called
  /\ lastCall.result \in LifecycleErrors
  /\ lifecycleContract /\ escrowContract /\ targetingContract
  /\ escrowRec = "empty"
  /\ targetingRec = "excluded"

NoneConfigured == ~lifecycleContract /\ ~escrowContract /\ ~targetingContract

\* C19: with no contract address configured a call returns Ok and queries
\* no contract.
C19_SkipChain ==
  (lastCall.called /\ NoneConfigured)
    => lastCall.result = "Ok" /\ lastCall.queries = <<>>

\* a call with nothing configured passed for a campaign that the lifecycle
\* contract does not know, whose escrow is empty
C19_SkippedAll ==
  /\ lastCall.called
  /\ NoneConfigured
  /\ lifecycleRec = "absent"
  /\ escrowRec = "empty"
  /\ views > 0

OnlyEscrowConfigured ==
  ~lifecycleContract /\ escrowContract /\ ~targetingContract

\* C20: with only the escrow contract configured and a locked balance of
\* zero a call fails with InsufficientEscrow.
C20_EmptyEscrow ==
  (lastCall.called /\ OnlyEscrowConfigured /\ escrowRec = "empty")
    => lastCall.result = "InsufficientEscrow"

\* such a call was made for an Active campaign and a publisher that meets
\* the targeting
C20_EmptyEscrowSeen ==
  /\ lastCall.called
  /\ OnlyEscrowConfigured
  /\ escrowRec = "empty"
  /\ lifecycleRec = "Active"
  /\ targetingRec = "ok"

TargetingFails ==
  targetingContract /\ targetingRec \in {"lowReputation", "excluded"}

C22_ReadOnlyErrors ==
  gwOutcome # NoOutcome
    => /\ gwSim.error => gwOutcome = Thrown("Simulation error")
       /\ (~gwSim.error /\ gwSim.transactionData /\ gwSim.retval = "undefined")
            => gwOutcome = Thrown("Simulation returned no result")
       /\ gwOutcome.kind = "returned" => gwSim.retval # "undefined"

\* C22, amended: a rejected simulation ends the call with the simulation
\* error, a response that is neither an error nor a success ends it with
\* the no-result error, and a successful simulation makes the call return:
\* null when there is no return value, the decoded return value otherwise.
C22_ReadOnlyOutcome ==
  gwOutcome # NoOutcome
    => /\ gwSim.error => gwOutcome = Thrown("Simulation error")
       /\ (~gwSim.error /\ ~gwSim.transactionData)
            => gwOutcome = Thrown("Simulation returned no result")
       /\ (~gwSim.error /\ gwSim.transactionData)
            => /\ gwOutcome.kind = "returned"
               /\ gwSim.retval = "undefined" => gwOutcome.value = "null"
               /\ gwOutcome.value # "null"
                    => gwOutcome.value = gwSim.retval

\* a successful simulation without a return value made the call return null
C22_ReturnedNull ==
  /\ gwOutcome = Returned("null")
  /\ ~gwSim.error
  /\ gwSim.transactionData
  /\ gwSim.retval = "undefined"

\* C23: a submission that fails a check of the form calls placeBid for
\* nothing: the contract's auction and the open form are as before, and the
\* form shows the error of the first failed check, which is the amount
\* error for an amount that is no positive number and the campaign error
\* only without a campaign.
C23_NoSideEffect ==
  (lastSubmit.done /\ ~lastSubmit.passed)
    => /\ ~lastSubmit.called
       /\ ~lastSubmit.accepted
       /\ ledger = lastSubmit.before
       /\ biddingOn = lastSubmit.auction
       /\ error = lastSubmit.error
       /\ error \in {ErrInvalid, ErrMinimum, ErrCampaign}
       /\ ~TextPositive(lastSubmit.text) => error = ErrInvalid
       /\ error = ErrCampaign => lastSubmit.campaign = ""

\* a bid below the minimum was submitted with a campaign and a connected
\* wallet, and was rejected
C23_RejectedWithWallet ==
  /\ lastSubmit.done
  /\ lastSubmit.error = ErrMinimum
  /\ lastSubmit.address # "null"
  /\ lastSubmit.campaign # ""
  /\ lastSubmit.auction.status = "Open"

NetworkMatches == freighterDetails = getNetworkPassphrase(currentNetwork)

\* C24: signTx calls signTransaction only when the network that Freighter
\* reports is the application's; when it differs or cannot be read, signTx
\* goes on without calling it and ends with the network-mismatch error.
C24_NoSignOnMismatch ==
  [][/\ (signPc' = "signTransaction" /\ signPc # "signTransaction")
          => NetworkMatches
     /\ (signPc = "verifyNetwork" /\ signPc' # "verifyNetwork" /\
         ~NetworkMatches)
          => signPc' = "getFreighterNetworkLabel"
     /\ (signPc = "getFreighterNetworkLabel" /\ signPc' # signPc)
          => /\ signPc' = "idle"
             /\ signOutcome'.kind = "thrown"
             /\ signOutcome'.value[1] = "Network mismatch"]_vars

\* signTx ended with the mismatch error after the network could not be
\* read
C24_BlockedUnreadable ==
  /\ signPc = "idle"
  /\ signOutcome.kind = "thrown"
  /\ signOutcome.value # "result.error"
  /\ freighterDetails \in {"error", "throws"}
  /\ lastWallet = "labelled"

\* C29: a store that says isConnected has an address.
C29_ConnectedHasAddress == isConnected => storeAddress # "null"


\* the amount typed is a bid that the auction of the form admits: a positive
\* number, not below the floor, and not below the increment over a winning bid
TextAdmitted(text, auction) ==
  /\ TextPositive(text)
  /\ ~TextBelow(text, auction.floor_price)
  /\ auction.winning_bid # Null
       => ~TextBelowIncrement(text, auction.winning_bid)

Expired == Countdown(end_time, now).ended

\* C25: the time of the browser never blocks a bid: the card of an auction
\* offers "Place Bid" exactly while the list shows the auction as Open, also
\* when its countdown reads "Ended", and a form opened on an Open auction
\* passes an admitted amount to placeBid after end_time as before it.
C25_ExpiryNeverBlocks ==
  /\ RenderedCard.placeBid = (auctions.status = "Open")
  /\ ~RenderedCard.placeBid => auctions.status \in {"Settled", "Cancelled"}
  /\ (/\ lastSubmit.done
      /\ lastSubmit.auction.status = "Open"
      /\ lastSubmit.campaign # ""
      /\ TextAdmitted(lastSubmit.text, lastSubmit.auction))
       => /\ lastSubmit.passed
          /\ lastSubmit.called = (lastSubmit.address # "null")

\* the countdown of an Open auction reads "Ended", its card offers the bid,
\* and an admitted bid has just been handed to placeBid
C25_BidAfterEnd ==
  /\ Expired
  /\ auctions.status = "Open"
  /\ RenderedCard.timeLeft = {Countdown(end_time, now)}
  /\ RenderedCard.placeBid
  /\ lastSubmit.done
  /\ lastSubmit.called
  /\ TextAdmitted(lastSubmit.text, lastSubmit.auction)


\* C27: the retry counter stays between 0 and maxReconnectAttempts, whatever
\* the order of connect(), disconnect(), close events and timer callbacks.
C27_AttemptsInRange ==
  reconnectAttempts >= 0 /\ reconnectAttempts <= maxReconnectAttempts


\* no socket is connecting, open or closing
AllClosed == \A s \in 1..Len(sockets) : sockets[s] = "closed"

\* C26: every open sets the retry counter to zero, and from there a drop is
\* followed by retries as after the first connect(): each close arms a
\* timer while the counter is below maxReconnectAttempts, each timer
\* callback counts one attempt and makes it, and a client that was connected
\* once and not shut down gives up only at the cap.
C26_OpenResetsRetries ==
  /\ [](lastAct = "onopen" => reconnectAttempts = 0)
  /\ []((manualConnects = 1 /\ ~shutdown /\ everOpened /\ AllClosed
           /\ reconnectAttempts < maxReconnectAttempts)
          => timers # {})
  /\ []((manualConnects = 1 /\ everOpened)
          => reconnectAttempts <= maxReconnectAttempts)
  /\ [][/\ (lastAct' = "onclose"
              /\ reconnectAttempts < maxReconnectAttempts)
             => reconnectTimer' \in timers' \ timers
        /\ lastAct' = "reconnect"
             => /\ reconnectAttempts' = reconnectAttempts + 1
                /\ connects' = connects + 1]_vars

\* one connect(): retries were used up before a connection opened, it
\* dropped, and the five retries after the drop were made as well
C26_RetriedAgainAfterOpen ==
  /\ manualConnects = 1
  /\ ~shutdown
  /\ everOpened
  /\ autoConnects > maxReconnectAttempts
  /\ reconnectAttempts = maxReconnectAttempts
  /\ AllClosed
  /\ timers = {}


\* the callbacks registered for an event of this type: under the type, then
\* under 'all'
RegisteredFor(type) == Tag(type, handlers[type]) \o Tag("all", handlers["all"])

\* C28: when a callback throws during the delivery of a validated frame,
\* every other callback registered for the event is invoked all the same.
C28_ThrowIsolated ==
  (/\ lastAct = "onmessage"
   /\ emitted # NoEvent
   /\ \E i \in 1..Len(delivered) : HandlerThrows(delivered[i].h))
    => \A j \in 1..Len(RegisteredFor(emitted)) :
         \E i \in 1..Len(delivered) : delivered[i] = RegisteredFor(emitted)[j]


\* the ids whose read returned a record that the query is about
KeptIds ==
  { i \in 1..listCount :
      /\ listResp[i] \notin {"thrown", "null"}
      /\ listHook # "governance_proposals" => listResp[i] = OwnerAddress }

\* the ids of set from the largest to the smallest
RECURSIVE Descending(_)
Descending(set) ==
  IF set = {} THEN <<>>
  ELSE LET top == CHOOSE i \in set : \A j \in set : j <= i
       IN  <<top>> \o Descending(set \ {top})

\* C30: a list query never throws, and whatever order its reads ended in it
\* returns the records that were read and belong to the address (every
\* proposal read, for the proposals), each once, by descending id; reads
\* that failed or found nothing are left out.
C30_ListQuery ==
  /\ listOutcome.kind # "thrown"
  /\ ~listRejected
  /\ listPc = "done" => listOutcome = Returned(Descending(KeptIds))

\* the records were pushed by ascending id, a read failed, and the query returned
\* two records of the address
C30_OutOfOrder ==
  /\ listPc = "done"
  /\ listCount = MaxCount
  /\ \E i \in 1..listCount : listResp[i] = "thrown"
  /\ Len(listAcc) = 2
  /\ listAcc[1] < listAcc[2]
  /\ listOutcome.kind = "returned"
  /\ Len(listOutcome.value) = 2

====
